---- MODULE Spec2Model ----
(***************************************************************************)
(* The memo record store of src-tauri/src/main.rs: one SQLite connection   *)
(* behind Arc<Mutex<Connection>>, and the tauri commands load, kill,       *)
(* merge, set_content, open and add_to_things, each called by any number   *)
(* of concurrent callers.                                                  *)
(*                                                                         *)
(* Strings are sequences of byte values (names and contents), so that      *)
(* ORDER BY name ASC (byte-wise order) and join(",") are computed.         *)
(* Option<String> is <<>> for None and <<s>> for Some(s).                  *)
(*                                                                         *)
(* A command that uses the connection is a sequence of steps, one per      *)
(* statement it runs on the connection, so that what other callers can do  *)
(* between two statements is part of the model.  The only SQL failure      *)
(* modelled is the INSERT of a name that is present; disk faults and a     *)
(* poisoned mutex (no command panics while it holds the guard) are not.    *)
(* db_pre is a history variable: it records the rows at lock() so that the *)
(* properties can compare a command's result with what it started from.    *)
(***************************************************************************)
EXTENDS Integers, Sequences, FiniteSets, TLC

\* ---------------------------------------------------------------- bounds
NumCallers == 2
MaxArgs == 2

\* ------------------------------------------------------------- constants
\* the separator of new_name, "," (one byte)
Comma == 44
\* the byte of which the separator of new_content, "\n\n", holds two
Newline == 10

None == <<>>
Some(s) == <<s>>
UnknownLabel == "unknown"

Callers == 1..NumCallers
Free == 0

\* ------------------------------------------------------------ the inputs
\* "a", "b" and "a,b"
NameA == <<97>>
NameB == <<98>>
NameAB == <<97, Comma, 98>>
ArgNames == {NameA, NameB, NameAB}

\* the records the ingestion process (outside this program) may have stored
InitRows ==
    {[name |-> NameA, content |-> <<104>>, label |-> l] :
        l \in {None, Some(UnknownLabel), Some("work")}}
    \cup {[name |-> NameB, content |-> <<119>>, label |-> l] :
        l \in {None, Some(UnknownLabel), Some("home")}}
    \cup {[name |-> NameAB, content |-> <<109>>, label |-> None]}

\* the new_content values callers pass to set_content: "x"
NewContents == {<<120>>}

\* the names callers pass to set_content
SetNames == {NameA}

\* the files callers ask open to play, and those that exist under
\* VOICE_MEMOS_STORAGE
FileNames == {NameA, NameB}
ExistingFiles == {NameA}

\* VOICE_MEMOS_STORAGE: "d"
StorageDir == <<100>>

\* the texts of the commands' errors
ThingsMissing == "Things is not installed"
OnlyMacOS == "This command is only available on macOS"
FileMissing == "File doesn't exist"
SpawnFailed == "spawn: io error"
UniqueFailed == "UNIQUE constraint failed: memos.name"

RECURSIVE SeqsUpTo(_, _)
SeqsUpTo(S, n) ==
    IF n = 0 THEN {<<>>}
    ELSE LET shorter == SeqsUpTo(S, n - 1)
         IN  shorter \cup {Append(s, x) : s \in shorter, x \in S}

\* the Vec<&str> arguments
ArgLists == SeqsUpTo(ArgNames, MaxArgs)
FileLists == SeqsUpTo(FileNames, MaxArgs)

Range(s) == {s[i] : i \in 1..Len(s)}

\* ------------------------------------------------------------- the state
VARIABLES
    db,          \* the rows of table memos
    lock,        \* the holder of State.db_conn's mutex, or Free
    pc,          \* where each caller is in its command
    op,          \* the command each caller runs
    names,       \* the names argument (for set_content: <<name>>)
    new_content, \* set_content's new_content argument
    rows_vec,    \* the local rows_vec of load, merge, add_to_things
    result,      \* "none", or the command's Ok / Err
    message,     \* the text of the command's Err, if any
    launched,    \* the process the command has spawned, if any
    macos,       \* cfg!(target_os = "macos") of this build
    db_pre       \* the rows when the current holder took the mutex

vars == <<db, lock, pc, op, names, new_content, rows_vec, result, message,
          launched, macos, db_pre>>

\* ------------------------------------------------------------ SQL pieces
Min(a, b) == IF a < b THEN a ELSE b

\* s < t in SQLite's BINARY collation (memcmp, then length)
LexLess(s, t) ==
    \/ /\ Len(s) < Len(t)
       /\ \A j \in 1..Len(s) : s[j] = t[j]
    \/ \E i \in 1..Min(Len(s), Len(t)) :
          /\ s[i] < t[i]
          /\ \A j \in 1..(i - 1) : s[j] = t[j]

\* mutant: ORDER BY name DESC
RECURSIVE OrderByNameDesc(_)
OrderByNameDesc(rows) ==
    IF rows = {} THEN <<>>
    ELSE LET first == CHOOSE r \in rows :
                          \A q \in rows : ~LexLess(r.name, q.name)
         IN  <<first>> \o OrderByNameDesc(rows \ {first})

\* ORDER BY name ASC
RECURSIVE OrderByName(_)
OrderByName(rows) ==
    IF rows = {} THEN <<>>
    ELSE LET first == CHOOSE r \in rows :
                          \A q \in rows : ~LexLess(q.name, r.name)
         IN  <<first>> \o OrderByName(rows \ {first})

\* mutant: load's SELECT ordered the other way
SelectAllDesc(tbl) == OrderByNameDesc(tbl)

\* SELECT name, content, label FROM memos ORDER BY name ASC
SelectAll(tbl) == OrderByName(tbl)

\* mutant: the selected rows in the order of the argument
RECURSIVE RowsInArgOrder(_, _, _)
RowsInArgOrder(tbl, ns, i) ==
    IF i = 0 THEN <<>>
    ELSE RowsInArgOrder(tbl, ns, i - 1) \o
         (IF /\ \E r \in tbl : r.name = ns[i]
             /\ \A j \in 1..(i - 1) : ns[j] # ns[i]
             THEN <<CHOOSE r \in tbl : r.name = ns[i]>>
             ELSE <<>>)

SelectInArgOrder(tbl, ns) == RowsInArgOrder(tbl, ns, Len(ns))

\* SELECT name, content, label FROM memos WHERE name IN rarray(?1) ORDER BY name ASC
SelectIn(tbl, ns) == OrderByName({r \in tbl : r.name \in Range(ns)})

\* DELETE FROM memos WHERE name IN rarray(?1)
DeleteIn(tbl, ns) == {r \in tbl : r.name \notin Range(ns)}

\* mutant: the UPDATE without its WHERE
UpdateEvery(tbl, c, n) == {[r EXCEPT !.content = c] : r \in tbl}

\* UPDATE memos SET content = ?1 WHERE name = ?2
UpdateContent(tbl, c, n) ==
    {IF r.name = n THEN [r EXCEPT !.content = c] ELSE r : r \in tbl}

\* mutant: a table without the key on name
NoPrimaryKey(tbl, n) == FALSE

\* name is the primary key of memos: an INSERT of a present name fails
UniqueViolation(tbl, n) == \E r \in tbl : r.name = n

\* INSERT INTO memos (name, content, label) VALUES (?1, ?2, ?3)
InsertRow(tbl, row) == tbl \cup {row}

\* ------------------------------------------------------- merge's new row
\* Vec<String>::join(sep)
RECURSIVE Join(_, _)
Join(strs, sep) ==
    IF Len(strs) = 0 THEN <<>>
    ELSE IF Len(strs) = 1 THEN strs[1]
    ELSE strs[1] \o sep \o Join(Tail(strs), sep)

NewName(rows) == Join([i \in 1..Len(rows) |-> rows[i].name], <<Comma>>)

NewContent(rows) ==
    Join([i \in 1..Len(rows) |-> rows[i].content], <<Newline, Newline>>)

\* mutant: the filter on "unknown" left out
NewLabelUnfiltered(rows) ==
    LET present == SelectSeq([i \in 1..Len(rows) |-> rows[i].label],
                             LAMBDA l : l # None)
    IN  IF Len(present) > 0 THEN present[1][1] ELSE UnknownLabel

\* filter_map(|option| option).filter(|label| label != "unknown").next()
\*     .unwrap_or(String::from("unknown"))
NewLabel(rows) ==
    LET real == SelectSeq([i \in 1..Len(rows) |-> rows[i].label],
                          LAMBDA l : l # None /\ l[1] # UnknownLabel)
    IN  IF Len(real) > 0 THEN real[1][1] ELSE UnknownLabel

NewRow(rows) ==
    [name |-> NewName(rows),
     content |-> NewContent(rows),
     label |-> Some(NewLabel(rows))]

\* mutant: the title taken from the row's name
ItemNamed(row) ==
    [type |-> "to-do", attributes |-> [title |-> row.name, notes |-> None]]

\* things3::Item::Todo(Todo { title: row.content.clone(), notes: None }),
\* as Item::serialize writes it
Item(row) ==
    [type |-> "to-do", attributes |-> [title |-> row.content, notes |-> None]]

Items(rows) == [i \in 1..Len(rows) |-> Item(rows[i])]

\* ------------------------------------------------------------------ Init
Init ==
    /\ db \in {s \in SUBSET InitRows :
                  \A r, q \in s : r.name = q.name => r = q}
    /\ lock = Free
    /\ pc = [p \in Callers |-> "idle"]
    /\ op = [p \in Callers |-> "none"]
    /\ names = [p \in Callers |-> <<>>]
    /\ new_content = [p \in Callers |-> <<>>]
    /\ rows_vec = [p \in Callers |-> <<>>]
    /\ result = [p \in Callers |-> "none"]
    /\ message = [p \in Callers |-> <<>>]
    /\ launched = [p \in Callers |-> <<>>]
    /\ macos \in BOOLEAN
    /\ db_pre = {}

\* ------------------------------------------------- calling and returning
LockedCommands == {"load", "kill", "merge", "set_content"}

\* the front-end invokes a command
Call(p) ==
    /\ pc[p] = "idle"
    /\ \E o \in LockedCommands \cup {"open", "add_to_things"} :
          /\ op' = [op EXCEPT ![p] = o]
          /\ pc' = [pc EXCEPT ![p] =
                       IF o \in LockedCommands THEN "lock" ELSE "check"]
    /\ UNCHANGED <<db, lock, names, new_content, rows_vec, result, message, launched, macos, db_pre>>

\* mutant: a lock() that does not wait for the holder
LockNoWait(p) ==
    /\ pc[p] = "lock"
    /\ lock' = p
    /\ db_pre' = db
    /\ pc' = [pc EXCEPT ![p] =
                 IF op[p] \in {"merge", "add_to_things"} THEN "select" ELSE "exec"]
    /\ IF op[p] = "set_content"
          THEN \E n \in SetNames, c \in NewContents :
                  /\ names' = [names EXCEPT ![p] = <<n>>]
                  /\ new_content' = [new_content EXCEPT ![p] = c]
          ELSE IF op[p] = "load"
          THEN UNCHANGED <<names, new_content>>
          ELSE \E ns \in ArgLists :
                  /\ names' = [names EXCEPT ![p] = ns]
                  /\ UNCHANGED new_content
    /\ UNCHANGED <<db, op, rows_vec, result, message, launched, macos>>

\* db_conn.lock(): blocks until the mutex is free
Lock(p) ==
    /\ pc[p] = "lock"
    /\ lock = Free
    /\ lock' = p
    /\ db_pre' = db
    /\ pc' = [pc EXCEPT ![p] =
                 IF op[p] \in {"merge", "add_to_things"} THEN "select" ELSE "exec"]
    /\ IF op[p] = "set_content"
          THEN \E n \in SetNames, c \in NewContents :
                  /\ names' = [names EXCEPT ![p] = <<n>>]
                  /\ new_content' = [new_content EXCEPT ![p] = c]
          ELSE IF op[p] = "load"
          THEN UNCHANGED <<names, new_content>>
          ELSE \E ns \in ArgLists :
                  /\ names' = [names EXCEPT ![p] = ns]
                  /\ UNCHANGED new_content
    /\ UNCHANGED <<db, op, rows_vec, result, message, launched, macos>>

\* mutant: a return that drops the MutexGuard only when the command is Ok
ReturnKeepOnErr(p) ==
    /\ pc[p] \in {"ret", "exit"}
    /\ pc' = [pc EXCEPT ![p] = "idle"]
    /\ op' = [op EXCEPT ![p] = "none"]
    /\ names' = [names EXCEPT ![p] = <<>>]
    /\ new_content' = [new_content EXCEPT ![p] = <<>>]
    /\ rows_vec' = [rows_vec EXCEPT ![p] = <<>>]
    /\ result' = [result EXCEPT ![p] = "none"]
    /\ message' = [message EXCEPT ![p] = <<>>]
    /\ launched' = [launched EXCEPT ![p] = <<>>]
    /\ lock' = IF pc[p] = "ret" /\ result[p] = "Ok" THEN Free ELSE lock
    /\ db_pre' = IF pc[p] = "ret" THEN {} ELSE db_pre
    /\ UNCHANGED <<db, macos>>

\* the command returns and its locals are dropped: at "ret" the MutexGuard
\* is among them, at "exit" the command never took the mutex
Return(p) ==
    /\ pc[p] \in {"ret", "exit"}
    /\ pc' = [pc EXCEPT ![p] = "idle"]
    /\ op' = [op EXCEPT ![p] = "none"]
    /\ names' = [names EXCEPT ![p] = <<>>]
    /\ new_content' = [new_content EXCEPT ![p] = <<>>]
    /\ rows_vec' = [rows_vec EXCEPT ![p] = <<>>]
    /\ result' = [result EXCEPT ![p] = "none"]
    /\ message' = [message EXCEPT ![p] = <<>>]
    /\ launched' = [launched EXCEPT ![p] = <<>>]
    /\ lock' = IF pc[p] = "ret" THEN Free ELSE lock
    /\ db_pre' = IF pc[p] = "ret" THEN {} ELSE db_pre
    /\ UNCHANGED <<db, macos>>

\* ------------------------------------------------------------------ load
Load(p) ==
    /\ pc[p] = "exec" /\ op[p] = "load"
    /\ rows_vec' = [rows_vec EXCEPT ![p] = SelectAll(db)]
    /\ result' = [result EXCEPT ![p] = "Ok"]
    /\ pc' = [pc EXCEPT ![p] = "ret"]
    /\ UNCHANGED <<db, lock, op, names, new_content, message, launched, macos, db_pre>>

\* mutant: a kill that fails, deleting nothing, when a name is not there
KillStrict(p) ==
    /\ pc[p] = "exec" /\ op[p] = "kill"
    /\ IF Range(names[p]) \subseteq {r.name : r \in db}
          THEN /\ db' = DeleteIn(db, names[p])
               /\ result' = [result EXCEPT ![p] = "Ok"]
          ELSE /\ result' = [result EXCEPT ![p] = "Err"]
               /\ UNCHANGED db
    /\ pc' = [pc EXCEPT ![p] = "ret"]
    /\ UNCHANGED <<lock, op, names, new_content, rows_vec, message, launched, macos, db_pre>>

\* ------------------------------------------------------------------ kill
Kill(p) ==
    /\ pc[p] = "exec" /\ op[p] = "kill"
    /\ db' = DeleteIn(db, names[p])
    /\ result' = [result EXCEPT ![p] = "Ok"]
    /\ pc' = [pc EXCEPT ![p] = "ret"]
    /\ UNCHANGED <<lock, op, names, new_content, rows_vec, message, launched, macos, db_pre>>

\* ----------------------------------------------------------- set_content
SetContent(p) ==
    /\ pc[p] = "exec" /\ op[p] = "set_content"
    /\ db' = UpdateContent(db, new_content[p], names[p][1])
    /\ result' = [result EXCEPT ![p] = "Ok"]
    /\ pc' = [pc EXCEPT ![p] = "ret"]
    /\ UNCHANGED <<lock, op, names, new_content, rows_vec, message, launched, macos, db_pre>>

\* ----------------------------------------------------------------- merge
\* if names.len() < 2 { return Ok(()) }
TooFewNames(ns) == Len(ns) < 2

\* merge as a function of the rows and the argument: its result and the
\* rows it leaves
MergeOutcome(tbl, ns) ==
    IF TooFewNames(ns)
       THEN [result |-> "Ok", db |-> tbl]
       ELSE LET selected == SelectIn(tbl, ns)
                left == DeleteIn(tbl, ns)
            IN  IF UniqueViolation(left, NewName(selected))
                   THEN [result |-> "Err", db |-> left]
                   ELSE [result |-> "Ok", db |-> InsertRow(left, NewRow(selected))]

\* the length check, then the SELECT into rows_vec
MergeSelect(p) ==
    /\ pc[p] = "select" /\ op[p] = "merge"
    /\ IF TooFewNames(names[p])
          THEN /\ result' = [result EXCEPT ![p] = "Ok"]
               /\ pc' = [pc EXCEPT ![p] = "ret"]
               /\ UNCHANGED rows_vec
          ELSE /\ rows_vec' = [rows_vec EXCEPT ![p] = SelectIn(db, names[p])]
               /\ pc' = [pc EXCEPT ![p] = "delete"]
               /\ UNCHANGED result
    /\ UNCHANGED <<db, lock, op, names, new_content, message, launched, macos, db_pre>>

\* mutant: the guard dropped after the DELETE
MergeDeleteUnlock(p) ==
    /\ pc[p] = "delete" /\ op[p] = "merge"
    /\ db' = DeleteIn(db, names[p])
    /\ pc' = [pc EXCEPT ![p] = "insert"]
    /\ lock' = Free
    /\ UNCHANGED <<op, names, new_content, rows_vec, result, message, launched, macos, db_pre>>

\* the DELETE of the requested names
MergeDelete(p) ==
    /\ pc[p] = "delete" /\ op[p] = "merge"
    /\ db' = DeleteIn(db, names[p])
    /\ pc' = [pc EXCEPT ![p] = "insert"]
    /\ UNCHANGED <<lock, op, names, new_content, rows_vec, result, message, launched, macos, db_pre>>

\* mutant: a failed INSERT rolls the DELETE back
MergeInsertRollback(p) ==
    /\ pc[p] = "insert" /\ op[p] = "merge"
    /\ IF UniqueViolation(db, NewName(rows_vec[p]))
          THEN /\ result' = [result EXCEPT ![p] = "Err"]
               /\ message' = [message EXCEPT ![p] = <<UniqueFailed>>]
               /\ db' = db_pre
          ELSE /\ db' = InsertRow(db, NewRow(rows_vec[p]))
               /\ result' = [result EXCEPT ![p] = "Ok"]
               /\ UNCHANGED message
    /\ pc' = [pc EXCEPT ![p] = "ret"]
    /\ UNCHANGED <<lock, op, names, new_content, rows_vec, launched, macos, db_pre>>

\* new_name, new_content, new_label and the INSERT
MergeInsert(p) ==
    /\ pc[p] = "insert" /\ op[p] = "merge"
    /\ IF UniqueViolation(db, NewName(rows_vec[p]))
          THEN /\ result' = [result EXCEPT ![p] = "Err"]
               /\ message' = [message EXCEPT ![p] = <<UniqueFailed>>]
               /\ UNCHANGED db
          ELSE /\ db' = InsertRow(db, NewRow(rows_vec[p]))
               /\ result' = [result EXCEPT ![p] = "Ok"]
               /\ UNCHANGED message
    /\ pc' = [pc EXCEPT ![p] = "ret"]
    /\ UNCHANGED <<lock, op, names, new_content, rows_vec, launched, macos, db_pre>>

\* --------------------------------------------------------- add_to_things
\* mutant: the test for Things3.app made after db_conn.lock()
ThingsCheckLate(p) ==
    /\ pc[p] = "check" /\ op[p] = "add_to_things"
    /\ lock = Free
    /\ lock' = p
    /\ \E installed \in BOOLEAN :
          IF installed
             THEN /\ pc' = [pc EXCEPT ![p] = "select"]
                  /\ UNCHANGED <<result, message>>
             ELSE /\ pc' = [pc EXCEPT ![p] = "exit"]
                  /\ result' = [result EXCEPT ![p] = "Err"]
                  /\ message' = [message EXCEPT ![p] = <<ThingsMissing>>]
    /\ UNCHANGED <<db, op, names, new_content, rows_vec, launched, macos, db_pre>>

\* Path::new("/Applications/Things3.app").exists()
ThingsCheck(p) ==
    /\ pc[p] = "check" /\ op[p] = "add_to_things"
    /\ \E installed \in BOOLEAN :
          IF installed
             THEN /\ pc' = [pc EXCEPT ![p] = "lock"]
                  /\ UNCHANGED <<result, message>>
             ELSE /\ pc' = [pc EXCEPT ![p] = "exit"]
                  /\ result' = [result EXCEPT ![p] = "Err"]
                  /\ message' = [message EXCEPT ![p] = <<ThingsMissing>>]
    /\ UNCHANGED <<db, lock, op, names, new_content, rows_vec, launched, macos, db_pre>>

ThingsSelect(p) ==
    /\ pc[p] = "select" /\ op[p] = "add_to_things"
    /\ rows_vec' = [rows_vec EXCEPT ![p] = SelectIn(db, names[p])]
    /\ pc' = [pc EXCEPT ![p] = "spawn"]
    /\ UNCHANGED <<db, lock, op, names, new_content, result, message, launched, macos, db_pre>>

\* mutant: the exported memos removed from the table after the spawn
ThingsSpawnDelete(p) ==
    /\ pc[p] = "spawn" /\ op[p] = "add_to_things"
    /\ \E spawned \in BOOLEAN :
          IF spawned
             THEN /\ launched' = [launched EXCEPT ![p] =
                         <<[program |-> "open", args |-> Items(rows_vec[p])]>>]
                  /\ result' = [result EXCEPT ![p] = "Ok"]
                  /\ db' = DeleteIn(db, names[p])
                  /\ UNCHANGED message
             ELSE /\ result' = [result EXCEPT ![p] = "Err"]
                  /\ message' = [message EXCEPT ![p] = <<SpawnFailed>>]
                  /\ UNCHANGED <<launched, db>>
    /\ pc' = [pc EXCEPT ![p] = "ret"]
    /\ UNCHANGED <<lock, op, names, new_content, rows_vec, macos, db_pre>>

\* Command::new("open").arg(url.as_str()).spawn()
ThingsSpawn(p) ==
    /\ pc[p] = "spawn" /\ op[p] = "add_to_things"
    /\ \E spawned \in BOOLEAN :
          IF spawned
             THEN /\ launched' = [launched EXCEPT ![p] =
                         <<[program |-> "open", args |-> Items(rows_vec[p])]>>]
                  /\ result' = [result EXCEPT ![p] = "Ok"]
                  /\ UNCHANGED message
             ELSE /\ result' = [result EXCEPT ![p] = "Err"]
                  /\ message' = [message EXCEPT ![p] = <<SpawnFailed>>]
                  /\ UNCHANGED launched
    /\ pc' = [pc EXCEPT ![p] = "ret"]
    /\ UNCHANGED <<db, lock, op, names, new_content, rows_vec, macos, db_pre>>

\* ------------------------------------------------------------------ open
\* Path::new(&dir).join(file), for a relative file: dir, "/", file
ResolvedPath(file) == StorageDir \o <<47>> \o file

\* the first file of the loop whose path does not exist
FirstMissing(ns) ==
    LET i == CHOOSE k \in 1..Len(ns) :
                 /\ ns[k] \notin ExistingFiles
                 /\ \A j \in 1..(k - 1) : ns[j] \in ExistingFiles
    IN  ns[i]

\* mutant: open without the loop that looks for the files
OpenUnchecked(p) ==
    /\ pc[p] = "check" /\ op[p] = "open"
    /\ \E spawned \in BOOLEAN, ns \in FileLists :
          /\ names' = [names EXCEPT ![p] = ns]
          /\ IF ~macos
                THEN /\ result' = [result EXCEPT ![p] = "Err"]
                     /\ message' = [message EXCEPT ![p] = <<OnlyMacOS>>]
                     /\ UNCHANGED launched
                ELSE IF spawned
                THEN /\ launched' = [launched EXCEPT ![p] =
                            <<[program |-> "VLC", args |-> ns]>>]
                     /\ result' = [result EXCEPT ![p] = "Ok"]
                     /\ UNCHANGED message
                ELSE /\ result' = [result EXCEPT ![p] = "Err"]
                     /\ message' = [message EXCEPT ![p] = <<SpawnFailed>>]
                     /\ UNCHANGED launched
    /\ pc' = [pc EXCEPT ![p] = "exit"]
    /\ UNCHANGED <<db, lock, op, new_content, rows_vec, macos, db_pre>>

\* the platform test, the loop over the files, and
\* Command::new(VLC).args(["--play-and-exit"] ++ names).spawn()
Open(p) ==
    /\ pc[p] = "check" /\ op[p] = "open"
    /\ \E spawned \in BOOLEAN, ns \in FileLists :
          /\ names' = [names EXCEPT ![p] = ns]
          /\ IF ~macos
                THEN /\ result' = [result EXCEPT ![p] = "Err"]
                     /\ message' = [message EXCEPT ![p] = <<OnlyMacOS>>]
                     /\ UNCHANGED launched
                ELSE IF ~(Range(ns) \subseteq ExistingFiles)
                THEN /\ result' = [result EXCEPT ![p] = "Err"]
                     /\ message' = [message EXCEPT ![p] =
                            <<FileMissing, ResolvedPath(FirstMissing(ns))>>]
                     /\ UNCHANGED launched
                ELSE IF spawned
                THEN /\ launched' = [launched EXCEPT ![p] =
                            <<[program |-> "VLC", args |-> ns]>>]
                     /\ result' = [result EXCEPT ![p] = "Ok"]
                     /\ UNCHANGED message
                ELSE /\ result' = [result EXCEPT ![p] = "Err"]
                     /\ message' = [message EXCEPT ![p] = <<SpawnFailed>>]
                     /\ UNCHANGED launched
    /\ pc' = [pc EXCEPT ![p] = "exit"]
    /\ UNCHANGED <<db, lock, op, new_content, rows_vec, macos, db_pre>>

\* ------------------------------------------------------------------ Next
\* one step of caller p's command
Step(p) ==
    \/ Call(p)
    \/ Lock(p)
    \/ Return(p)
    \/ Load(p)
    \/ Kill(p)
    \/ SetContent(p)
    \/ MergeSelect(p)
    \/ MergeDelete(p)
    \/ MergeInsert(p)
    \/ ThingsCheck(p)
    \/ ThingsSelect(p)
    \/ ThingsSpawn(p)
    \/ Open(p)

\* the commands of any number of callers, interleaved
Next == \E p \in Callers : Step(p)

Spec == Init /\ [][Next]_vars

\* the commands invoked one after the other, each call made when the one
\* before it has returned
NextSerial == Step(1)

SpecSerial == Init /\ [][NextSerial]_vars

\* the steps of a command that is running: all of them but the front-end's
\* call and the wait for the mutex
Run(p) ==
    \/ Return(p)
    \/ Load(p)
    \/ Kill(p)
    \/ SetContent(p)
    \/ MergeSelect(p)
    \/ MergeDelete(p)
    \/ MergeInsert(p)
    \/ ThingsCheck(p)
    \/ ThingsSelect(p)
    \/ ThingsSpawn(p)
    \/ Open(p)

\* fair scheduling: a command that is running takes its next step, none of
\* which blocks (spawn starts the child and does not wait for it), and a
\* caller blocked in lock() gets the mutex if it is free again and again.
\* The front-end need not call at all.
Fairness ==
    \A p \in Callers : WF_vars(Run(p)) /\ SF_vars(Lock(p))

\* the store the fair runs start from: "a", "b" and "a,b", so that a merge
\* of "a" and "b" fails on its INSERT
FairRows ==
    {[name |-> NameA, content |-> <<104>>, label |-> Some("work")],
     [name |-> NameB, content |-> <<119>>, label |-> None],
     [name |-> NameAB, content |-> <<109>>, label |-> None]}

InitFair == Init /\ db = FairRows

SpecFair == InitFair /\ [][Next]_vars /\ Fairness

\* the same with the scheduler fair to running commands only, the mutex
\* handed to whichever caller comes first
FairnessWeak ==
    \A p \in Callers : WF_vars(Run(p)) /\ WF_vars(Lock(p))

SpecFairWeak == InitFair /\ [][Next]_vars /\ FairnessWeak

TypeOK ==
    /\ lock \in Callers \cup {Free}
    /\ \A p \in Callers : result[p] \in {"none", "Ok", "Err"}
    /\ \A p \in Callers :
          pc[p] \in {"idle", "lock", "check", "select", "delete", "insert",
                     "exec", "spawn", "ret", "exit"}

\* ====================================================== the properties
\* the rows of tbl that a names argument selects
Participants(tbl, ns) == {r \in tbl : r.name \in Range(ns)}

\* caller p's merge has run to its return
MergeReturned(p) == op[p] = "merge" /\ pc[p] = "ret"

\* caller p's merge has run its INSERT with success
MergeInserted(p) ==
    MergeReturned(p) /\ result[p] = "Ok" /\ Len(names[p]) >= 2

\* the rows caller p's command has added to those it left in place
Inserted(p) == db \ DeleteIn(db_pre, names[p])

\* caller p is between db_conn.lock() and its return
InConnection(p) ==
    pc[p] \in {"select", "delete", "insert", "exec", "spawn", "ret"}

\* a label that is present and not "unknown"
RealLabel(r) == r.label # None /\ r.label # Some(UnknownLabel)

\* strs joined with sep, built from the right
RECURSIVE Joined(_, _)
Joined(strs, sep) ==
    IF Len(strs) = 0 THEN <<>>
    ELSE LET n == Len(strs)
         IN  IF n = 1 THEN strs[1]
             ELSE Joined(SubSeq(strs, 1, n - 1), sep) \o sep \o strs[n]

\* the sequences that list every row of rows once, in ascending name order
Ascending(rows) ==
    {s \in [1..Cardinality(rows) -> rows] :
        \A i, j \in 1..Cardinality(rows) :
            i < j => LexLess(s[i].name, s[j].name)}

\* C1: in every reachable state, under any interleaving of the commands,
\* no two rows of memos have the same name.
C1_UniqueNames == \A r, q \in db : r.name = q.name => r = q

\* C1 witness: a merge of two rows has inserted its row next to another
C1_Witness ==
    \E p \in Callers :
        /\ MergeInserted(p)
        /\ Cardinality(Participants(db_pre, names[p])) >= 2
        /\ Cardinality(db) >= 2

\* C2 (as claimed): a merge of N >= 2 distinct names that all exist leaves
\* one row in place of the N participants, N - 1 rows fewer in all.
C2_MergeCountLaw ==
    \A p \in Callers :
        (/\ MergeReturned(p)
         /\ Len(names[p]) >= 2
         /\ Cardinality(Range(names[p])) = Len(names[p])
         /\ Range(names[p]) \subseteq {r.name : r \in db_pre})
        => /\ Cardinality(Inserted(p)) = 1
           /\ Cardinality(db) = Cardinality(db_pre) - (Len(names[p]) - 1)

\* C3 (as claimed): when merge is about to INSERT, after its DELETE, no row
\* has the name computed for the merged row.
C3_InsertNeverCollides ==
    \A p \in Callers :
        (op[p] = "merge" /\ pc[p] = "insert")
        => ~\E r \in db : r.name = NewName(rows_vec[p])

\* C4 (as claimed): a merge whose argument holds fewer than 2 distinct
\* names returns Ok and leaves every row as it was.
C4_FewDistinctNamesNoOp ==
    \A p \in Callers :
        (MergeReturned(p) /\ Cardinality(Range(names[p])) < 2)
        => result[p] = "Ok" /\ db = db_pre

\* C5 (as claimed): a merge of which fewer than two requested names exist
\* leaves the rows, labels included, as they were and inserts nothing.
C5_FewExistingNoOp ==
    \A p \in Callers :
        (MergeReturned(p) /\ Cardinality(Participants(db_pre, names[p])) < 2)
        => db = db_pre

\* C6: after a successful merge of two or more existing rows, the inserted
\* row's name is the participants' names in ascending order joined with ","
\* and its content their contents in that order joined with "\n\n",
\* whatever the order of the argument.
C6_MergedNameAndContent ==
    \A p \in Callers :
        (MergeInserted(p) /\ Cardinality(Participants(db_pre, names[p])) >= 2)
        => \E m \in db : \E s \in Ascending(Participants(db_pre, names[p])) :
              /\ Inserted(p) = {m}
              /\ m.name = Joined([i \in 1..Len(s) |-> s[i].name], <<44>>)
              /\ m.content = Joined([i \in 1..Len(s) |-> s[i].content], <<10, 10>>)

\* C6 witness: ["b", "a"], both present, has been merged
C6_Witness ==
    \E p \in Callers :
        /\ MergeInserted(p)
        /\ names[p] = <<NameB, NameA>>
        /\ Cardinality(Participants(db_pre, names[p])) = 2

\* C7: the merged row's label is the first label, in ascending name order
\* of the participants, that is present and not "unknown"; with no such
\* label it is "unknown"; it is never absent.
C7_MergedLabel ==
    \A p \in Callers :
        MergeInserted(p)
        => \A m \in Inserted(p) :
              LET P == Participants(db_pre, names[p])
              IN  /\ m.label # None
                  /\ \/ \E r \in P :
                           /\ RealLabel(r)
                           /\ \A q \in P : LexLess(q.name, r.name) => ~RealLabel(q)
                           /\ m.label = r.label
                     \/ /\ \A r \in P : ~RealLabel(r)
                        /\ m.label = Some("unknown")

\* C7 witness: a merge of a row labelled "unknown" or unlabelled, sorted
\* before a row with a real label, has inserted its row
C7_Witness ==
    \E p \in Callers :
        /\ MergeInserted(p)
        /\ Inserted(p) # {}
        /\ \E r, q \in Participants(db_pre, names[p]) :
              /\ LexLess(r.name, q.name)
              /\ ~RealLabel(r)
              /\ RealLabel(q)

\* C8: at most one caller at a time is between acquiring the mutex and
\* returning.
C8_OneInConnection ==
    \A p, q \in Callers : (InConnection(p) /\ InConnection(q)) => p = q

\* C8 witness: one caller is in the connection while another waits in lock()
C8_Witness ==
    \E p, q \in Callers :
        /\ p # q
        /\ InConnection(p)
        /\ pc[q] = "lock"

\* C9: while a merge is between its SELECT and its INSERT it holds the
\* mutex, and no other caller is in the connection to see or change the
\* rows.
C9_MergeHoldsLock ==
    \A p \in Callers :
        (op[p] = "merge" /\ pc[p] \in {"delete", "insert"})
        => /\ lock = p
           /\ \A q \in Callers \ {p} : ~InConnection(q)

\* C9 witness: a merge has deleted two rows and not yet inserted, while
\* another caller waits for the mutex
C9_Witness ==
    \E p, q \in Callers :
        /\ p # q
        /\ op[p] = "merge" /\ pc[p] = "insert"
        /\ Len(rows_vec[p]) >= 2
        /\ Participants(db, names[p]) = {}
        /\ pc[q] = "lock"

\* C10 (as claimed): no caller holds the mutex when it spawns a process, and
\* open never holds it.
C10_NoLockAcrossSpawn ==
    \A p \in Callers :
        /\ pc[p] = "spawn" => lock # p
        /\ op[p] = "open" => lock # p

\* C11: when Things is not installed add_to_things fails with that error
\* before any use of the store: it has not taken the mutex, read a row or
\* spawned a process, and the step leaves the rows and the mutex as they
\* were.
C11_NotInstalledNoAccess ==
    /\ [](\A p \in Callers :
            (op[p] = "add_to_things" /\ pc[p] = "exit")
            => /\ result[p] = "Err"
               /\ message[p] = <<"Things is not installed">>
               /\ lock # p
               /\ rows_vec[p] = <<>>
               /\ launched[p] = <<>>)
    /\ [][\A p \in Callers :
            (op[p] = "add_to_things" /\ pc[p] = "check" /\ pc'[p] = "exit")
            => (db' = db /\ lock' = lock)]_vars

\* C11 witness: add_to_things has failed for want of Things, rows present
C11_Witness ==
    \E p \in Callers :
        /\ op[p] = "add_to_things" /\ pc[p] = "exit"
        /\ db # {}

\* C12: the rows of memos are the same before and after add_to_things,
\* whether it succeeds or fails: they are unchanged all the while it holds
\* the mutex, and no step of it changes them.
C12_ExportLeavesRows ==
    /\ [](\A p \in Callers :
            (op[p] = "add_to_things" /\ pc[p] \in {"select", "spawn", "ret"})
            => db = db_pre)
    /\ [][\A p \in Callers :
            (op[p] = "add_to_things" /\ pc'[p] # pc[p]) => db' = db]_vars

\* C12 witness: add_to_things has exported rows and returned Ok
C12_Witness ==
    \E p \in Callers :
        /\ op[p] = "add_to_things" /\ pc[p] = "ret"
        /\ result[p] = "Ok"
        /\ Participants(db_pre, names[p]) # {}

\* C13: the payload add_to_things hands over holds one to-do item for each
\* row whose name is in the argument, in ascending name order, its title the
\* row's content and its notes null, and nothing of the row's name or label.
C13_ExportPayload ==
    \A p \in Callers :
        (op[p] = "add_to_things" /\ launched[p] # <<>>)
        => \E s \in Ascending(Participants(db_pre, names[p])) :
              launched[p][1].args =
                  [i \in 1..Len(s) |->
                      [type |-> "to-do",
                       attributes |-> [title |-> s[i].content, notes |-> <<>>]]]

\* C13 witness: ["b", "a"], both present, has been exported
C13_Witness ==
    \E p \in Callers :
        /\ op[p] = "add_to_things" /\ launched[p] # <<>>
        /\ names[p] = <<NameB, NameA>>
        /\ Len(launched[p][1].args) = 2

\* C14: load returns every row of memos once, in ascending name order, and
\* leaves the rows as they were.
C14_LoadSorted ==
    \A p \in Callers :
        (op[p] = "load" /\ pc[p] = "ret")
        => /\ result[p] = "Ok"
           /\ \E s \in Ascending(db_pre) : rows_vec[p] = s
           /\ db = db_pre

\* C14 witness: load has returned the three rows a, "a,b", b
C14_Witness ==
    \E p \in Callers :
        /\ op[p] = "load" /\ pc[p] = "ret"
        /\ Len(rows_vec[p]) = 3

\* C15: kill removes the rows whose name is in the argument and no other,
\* leaves the other rows as they were, and returns Ok also when some of the
\* names are not in the table.
C15_KillExactly ==
    \A p \in Callers :
        (op[p] = "kill" /\ pc[p] = "ret")
        => /\ result[p] = "Ok"
           /\ db = {r \in db_pre : \A i \in 1..Len(names[p]) : names[p][i] # r.name}

\* C15 witness: kill of a name that is there and one that is not, with a
\* third row left in place
C15_Witness ==
    \E p \in Callers :
        /\ op[p] = "kill" /\ pc[p] = "ret"
        /\ \E i, j \in 1..Len(names[p]) :
              /\ names[p][i] \in {r.name : r \in db_pre}
              /\ names[p][j] \notin {r.name : r \in db_pre}
        /\ db # {}

\* C16: set_content changes the content of the row of that name and nothing
\* else: the names, the labels and the other rows' contents are as before;
\* with no row of that name the rows are unchanged; the call returns Ok.
C16_SetContentOnly ==
    \A p \in Callers :
        (op[p] = "set_content" /\ pc[p] = "ret")
        => /\ result[p] = "Ok"
           /\ Cardinality(db) = Cardinality(db_pre)
           /\ \A r \in db_pre : \E q \in db :
                 /\ q.name = r.name
                 /\ q.label = r.label
                 /\ q.content = IF r.name = names[p][1]
                                   THEN new_content[p] ELSE r.content
           /\ (\A r \in db_pre : r.name # names[p][1]) => db = db_pre

\* C16 witness: set_content has rewritten row a, with other rows present
C16_Witness ==
    \E p \in Callers :
        /\ op[p] = "set_content" /\ pc[p] = "ret"
        /\ \E r \in db_pre : r.name = names[p][1] /\ r.content # new_content[p]
        /\ Cardinality(db) >= 2

\* C16 also: set_content of a name that is not there has returned
C16_NoMatchReached ==
    \E p \in Callers :
        /\ op[p] = "set_content" /\ pc[p] = "ret"
        /\ db # {}
        /\ \A r \in db_pre : r.name # names[p][1]

\* caller p's open has run to its return
OpenReturned(p) == op[p] = "open" /\ pc[p] = "exit"

\* the requested files that are not in the storage directory
MissingFiles(p) == Range(names[p]) \ ExistingFiles

\* open has failed, spawning nothing, with an error that names the resolved
\* path of a requested file that is missing
FailedNamingMissing(p) ==
    /\ result[p] = "Err"
    /\ launched[p] = <<>>
    /\ \E f \in MissingFiles(p) :
          message[p] = <<"File doesn't exist", <<100, 47>> \o f>>

\* C17 (as claimed): open spawns nothing and fails naming the missing file
\* when a requested file is missing, and spawns one player with all the
\* files when none is.
C17_AllOrNothing ==
    \A p \in Callers :
        OpenReturned(p)
        => /\ MissingFiles(p) # {} => FailedNamingMissing(p)
           /\ MissingFiles(p) = {}
                 => launched[p] = <<[program |-> "VLC", args |-> names[p]]>>

\* C17 (amended): on a build for macOS, open spawns nothing and fails naming
\* the missing file when a requested file is missing; when none is, it
\* spawns one player with all the files and returns Ok, unless the spawn
\* fails, and then it returns that error with nothing spawned.  On any other
\* build it fails with the platform error and spawns nothing.
C17_AllOrNothingOnMacOS ==
    \A p \in Callers :
        OpenReturned(p)
        => IF ~macos
              THEN /\ result[p] = "Err"
                   /\ launched[p] = <<>>
                   /\ message[p] = <<"This command is only available on macOS">>
              ELSE /\ MissingFiles(p) # {} => FailedNamingMissing(p)
                   /\ MissingFiles(p) = {}
                         => \/ /\ result[p] = "Ok"
                               /\ launched[p] =
                                     <<[program |-> "VLC", args |-> names[p]]>>
                            \/ /\ result[p] = "Err"
                               /\ launched[p] = <<>>
                               /\ message[p] = <<SpawnFailed>>

\* C17 witness: on macOS, open of ["a", "b"], b missing, has returned
C17_Witness ==
    \E p \in Callers :
        /\ OpenReturned(p)
        /\ macos
        /\ names[p] = <<NameA, NameB>>
        /\ MissingFiles(p) = {NameB}

\* C19: when merge's INSERT fails after its DELETE, merge returns Err and
\* rolls nothing back: the participants stay deleted, no row has been
\* inserted, and every other row is as it was.
C19_NoRollback ==
    \A p \in Callers :
        (MergeReturned(p) /\ result[p] = "Err")
        => /\ \A r \in db_pre : r.name \in Range(names[p]) => r \notin db
           /\ \A r \in db_pre : r.name \notin Range(names[p]) => r \in db
           /\ db \subseteq db_pre
           /\ message[p] # <<>>

\* C19 witness: a merge of two rows has failed at its INSERT
C19_Witness ==
    \E p \in Callers :
        /\ MergeReturned(p) /\ result[p] = "Err"
        /\ Cardinality(Participants(db_pre, names[p])) >= 2

\* the lists that hold the elements of ns, each as often, in any order
Reorderings(ns) ==
    {t \in [1..Len(ns) -> Range(ns)] :
        \A x \in Range(ns) :
            Cardinality({i \in 1..Len(ns) : t[i] = x})
                = Cardinality({i \in 1..Len(ns) : ns[i] = x})}

\* C20: the result of merge and the rows it leaves do not depend on the
\* order of the names: what a merge has done is what merge does, from the
\* same rows, on every permutation of its argument.
C20_OrderIndependent ==
    \A p \in Callers :
        MergeReturned(p)
        => \A t \in Reorderings(names[p]) :
              MergeOutcome(db_pre, t) = [result |-> result[p], db |-> db]

\* C20 witness: ["b", "a"], both present, has been merged
C20_Witness ==
    \E p \in Callers :
        /\ MergeReturned(p)
        /\ names[p] = <<NameB, NameA>>
        /\ Cardinality(Participants(db_pre, names[p])) = 2
        /\ Cardinality(Reorderings(names[p])) = 2

====
